---- MODULE Spec2Model ----
(***************************************************************************)
(* Model of nat_app.py, the Nautilus maritime incidents dashboard.         *)
(*                                                                         *)
(* The script is executed top to bottom once when the page is opened and   *)
(* once more after every change of a sidebar widget.  One execution is one *)
(* action: load_data (cached), the sidebar widgets, the filter, and the    *)
(* six tabs.  A missing value of a numeric column (NaN, NaT) is the empty  *)
(* tuple and a present value v is <<v>>; a missing value of a string       *)
(* column is the string NA.  Latitude, Longitude and Day are not modelled: *)
(* no aggregation reads them.                                              *)
(***************************************************************************)
EXTENDS Integers, Sequences, FiniteSets, TLC

VARIABLES
    csv,              \* rows of maritime_incidents_realistic.csv as read_csv returns them
    status,           \* "start" | "rendered" | "load_error" | "slider_error"
    interacted,       \* TRUE once a sidebar widget has been changed
    data,             \* the table load_data returned
    years, months, countries, vessels, incidents,   \* multiselect values
    cas_range,        \* slider value <<low, high>>
    filtered,         \* the filtered frame at the end of the script
    kpi,              \* the four st.metric values
    tabs,             \* what each of the six tabs rendered
    markers,          \* icon colours of the map markers, one per filtered row
    sankey_data, radar_data, funnel_data, month_count, month_casualties

vars == <<csv, status, interacted, data, years, months, countries, vessels,
          incidents, cas_range, filtered, kpi, tabs, markers, sankey_data, radar_data,
          funnel_data, month_count, month_casualties>>

----------------------------------------------------------------------------
(* Bounds of the model *)

MaxRows == 2          \* rows of the source file, full script
MaxSel == 2           \* multiselect options selected at the same time
MaxLoadRows == 2      \* rows of the source file, loader alone
MaxExtra == 2         \* rows following the six-country block, radar tables

----------------------------------------------------------------------------
(* Missing values and small helpers *)

NaN == <<>>
NA == "NaN"
Num(n) == <<n>>
IsNaN(x) == x = NaN
Val(x) == x[1]

RECURSIVE SumSeq(_)
SumSeq(s) == IF s = <<>> THEN 0 ELSE Head(s) + SumSeq(Tail(s))

RECURSIVE FilterSeq(_, _)
\* boolean indexing frame[mask]: the rows whose mask entry is TRUE, in order
FilterSeq(rows, mask) ==
    IF rows = <<>> THEN <<>>
    ELSE (IF Head(mask) THEN <<Head(rows)>> ELSE <<>>)
         \o FilterSeq(Tail(rows), Tail(mask))

Range(s) == {s[i] : i \in DOMAIN s}

SeqsUpTo(S, n) == UNION {[1..k -> S] : k \in 0..n}

SetMin(S) == CHOOSE m \in S : \A x \in S : m <= x
SetMax(S) == CHOOSE m \in S : \A x \in S : x <= m

----------------------------------------------------------------------------
(* load_data *)

month_order == <<"Jan", "Feb", "Mar", "Apr", "May", "Jun",
                 "Jul", "Aug", "Sep", "Oct", "Nov", "Dec">>

bins == <<-1, 10, 50, 1000>>
labels == <<"Low", "Medium", "High">>

\* pd.cut(x, bins, labels): intervals are open on the left and closed on the
\* right; a value outside every interval gets no label.
Cut(x) ==
    IF \E i \in 1..Len(labels) : bins[i] < x /\ x <= bins[i + 1]
    THEN labels[CHOOSE i \in 1..Len(labels) : bins[i] < x /\ x <= bins[i + 1]]
    ELSE NA

fillna(x, v) == IF IsNaN(x) THEN v ELSE Val(x)

Severity(casualties) == Cut(fillna(casualties, 0))

\* Mutant: every value but "Yes" maps to 0, as (x == "Yes").astype(int) would
CargoLossFlag_else_zero(cargo_loss) == IF cargo_loss = "Yes" THEN Num(1) ELSE Num(0)

\* Series.map({"Yes": 1, "No": 0}): a value that is no key of the dict maps to NaN
CargoLossFlag(cargo_loss) ==
    IF cargo_loss = "Yes" THEN Num(1)
    ELSE IF cargo_loss = "No" THEN Num(0)
    ELSE NaN

\* pd.to_datetime(errors="coerce") then .dt.year / .dt.month: a date is <<year, month>>,
\* NaT is <<>>.
DtYear(date) == IF date = <<>> THEN NaN ELSE Num(date[1])
DtMonth(date) == IF date = <<>> THEN NaN ELSE Num(date[2])

\* dtype of .dt.year / .dt.month: integers, or float64 as soon as one date is NaT
DtDtype(rows) == IF \E i \in DOMAIN rows : rows[i].Date = <<>> THEN "float64" ELSE "int32"

\* str(x) of a Month value: "3" for an integer, "3.0" for a float, "nan" for NaN
PyStr(x, dtype) ==
    IF IsNaN(x) THEN [nan |-> TRUE, n |-> 0, suffix |-> ""]
    ELSE [nan |-> FALSE, n |-> Val(x), suffix |-> IF dtype = "float64" THEN ".0" ELSE ""]

\* pd.to_datetime(s, format="%m").strftime("%b"): "nan" parses to NaT, whose
\* strftime raises; a string that is not a month number does not match %m.
MonthNameOf(s) ==
    IF s.nan THEN [raised |-> TRUE, value |-> NA]
    ELSE IF s.suffix = "" /\ s.n \in 1..12 THEN [raised |-> FALSE, value |-> month_order[s.n]]
    ELSE [raised |-> TRUE, value |-> NA]

load_data_row(rows, i) ==
    LET r == rows[i]
        month == DtMonth(r.Date)
    IN [Index |-> i,
        Date |-> r.Date,
        Country |-> r.Country,
        Vessel_Type |-> r.Vessel_Type,
        Incident_Type |-> r.Incident_Type,
        Casualties |-> r.Casualties,
        Cargo_Loss |-> r.Cargo_Loss,
        Year |-> DtYear(r.Date),
        Month |-> month,
        Cargo_Loss_Flag |-> CargoLossFlag(r.Cargo_Loss),
        Severity |-> Severity(r.Casualties),
        Month_Name |-> MonthNameOf(PyStr(month, DtDtype(rows))).value]

load_data_raises(rows) ==
    \E i \in DOMAIN rows : MonthNameOf(PyStr(DtMonth(rows[i].Date), DtDtype(rows))).raised

load_data(rows) == [i \in DOMAIN rows |-> load_data_row(rows, i)]

----------------------------------------------------------------------------
(* Sidebar widgets *)

Column(rows, col) == [i \in DOMAIN rows |-> rows[i][col]]

\* sorted(data[col].dropna().unique()) for the numeric column Year
year_options(d) == {Val(x) : x \in {y \in Range(Column(d, "Year")) : ~IsNaN(y)}}

\* sorted(data[col].dropna().unique()) for a string column
string_options(d, col) == {x \in Range(Column(d, col)) : x # NA}

observed_casualties(d) == {Val(x) : x \in {c \in Range(Column(d, "Casualties")) : ~IsNaN(c)}}

\* int(data["Casualties"].min()): min() of a column with no value is NaN, and int(NaN) raises
slider_raises(d) == observed_casualties(d) = {}

default_range == <<0, 50>>

\* st.slider widens its bounds to hold the default value
slider_min(d) == SetMin(observed_casualties(d) \cup {default_range[1]})
slider_max(d) == SetMax(observed_casualties(d) \cup {default_range[2]})

----------------------------------------------------------------------------
(* The filter *)

isin_num(rows, col, selection) ==
    [i \in DOMAIN rows |-> ~IsNaN(rows[i][col]) /\ Val(rows[i][col]) \in selection]

isin_str(rows, col, selection) == [i \in DOMAIN rows |-> rows[i][col] \in selection]

\* NaN >= low is False and NaN <= high is False
between(rows, range) ==
    [i \in DOMAIN rows |->
        /\ ~IsNaN(rows[i].Casualties)
        /\ Val(rows[i].Casualties) >= range[1]
        /\ Val(rows[i].Casualties) <= range[2]]

\* if selection: frame = frame[frame[col].isin(selection)]
filter_num(rows, col, sel) ==
    IF sel # {} THEN FilterSeq(rows, isin_num(rows, col, sel)) ELSE rows

\* Mutant: the isin mask is applied without the `if selection:` guard
filter_str_no_guard(rows, col, sel) == FilterSeq(rows, isin_str(rows, col, sel))

filter_str(rows, col, sel) ==
    IF sel # {} THEN FilterSeq(rows, isin_str(rows, col, sel)) ELSE rows

filter_range(rows, range) == FilterSeq(rows, between(rows, range))

apply_filters(d, ys, ms, cs, vs, is, cr) ==
    filter_range(
        filter_str(
            filter_str(
                filter_str(
                    filter_str(
                        filter_num(d, "Year", ys),
                        "Month_Name", ms),
                    "Country", cs),
                "Vessel_Type", vs),
            "Incident_Type", is),
        cr)

----------------------------------------------------------------------------
(* KPI metrics *)

nunique(rows, col) == Cardinality(string_options(rows, col))

kpi_metrics(rows) ==
    [Total_Incidents |-> Len(rows),
     Total_Casualties |-> SumSeq([i \in DOMAIN rows |-> fillna(rows[i].Casualties, 0)]),
     Cargo_Loss_Events |-> SumSeq([i \in DOMAIN rows |-> fillna(rows[i].Cargo_Loss_Flag, 0)]),
     Countries_Involved |-> nunique(rows, "Country")]

----------------------------------------------------------------------------
(* Tab 1: map *)

marker_color(row) ==
    IF row.Severity = "High" THEN "red"
    ELSE IF row.Severity = "Medium" THEN "orange"
    ELSE "green"

----------------------------------------------------------------------------
(* Tab 2: timeline.  The tab writes two columns into the filtered frame. *)

\* pd.Categorical(values, categories=month_order): a value that is no category becomes NaN
as_month_category(x) == IF x \in Range(month_order) THEN x ELSE NA

timeline_rows(rows) ==
    [i \in DOMAIN rows |-> [rows[i] EXCEPT !.Month_Name = as_month_category(@)]]

Year_Month(rows) == [i \in DOMAIN rows |-> <<rows[i].Year, as_month_category(rows[i].Month_Name)>>]

----------------------------------------------------------------------------
(* Tab 3: Sankey.  groupby drops the rows with a missing key. *)

sankey_groups(rows) ==
    LET keyed == {i \in DOMAIN rows : rows[i].Incident_Type # NA /\ rows[i].Vessel_Type # NA}
        keys == {<<rows[i].Incident_Type, rows[i].Vessel_Type>> : i \in keyed}
    IN [k \in keys |->
          Cardinality({i \in keyed : <<rows[i].Incident_Type, rows[i].Vessel_Type>> = k})]

----------------------------------------------------------------------------
(* Tab 4: country radar *)

TopN == 5

\* Series.value_counts(): occurrences of every value, missing values excluded
value_counts(rows, col) ==
    [v \in string_options(rows, col) |-> Cardinality({i \in DOMAIN rows : rows[i][col] = v})]

first_position(rows, col, v) == SetMin({i \in DOMAIN rows : rows[i][col] = v})

\* value_counts().nlargest(TopN).index: the TopN most frequent values, equal
\* counts in order of first appearance
top_countries(rows) ==
    LET vc == value_counts(rows, "Country")
        Before(a, b) ==
            \/ vc[a] > vc[b]
            \/ vc[a] = vc[b] /\ first_position(rows, "Country", a) < first_position(rows, "Country", b)
    IN {c \in DOMAIN vc : Cardinality({b \in DOMAIN vc : Before(b, c)}) < TopN}

\* groupby("Country").agg(sum, sum, count): sum skips missing values, count
\* counts the values that are present
radar_entry(group) ==
    [Casualties |-> SumSeq([i \in DOMAIN group |-> fillna(group[i].Casualties, 0)]),
     Cargo_Loss_Flag |-> SumSeq([i \in DOMAIN group |-> fillna(group[i].Cargo_Loss_Flag, 0)]),
     Incident_Type |-> Cardinality({i \in DOMAIN group : group[i].Incident_Type # NA})]

radar_of(kept, top) ==
    [c \in top |-> radar_entry(FilterSeq(kept, isin_str(kept, "Country", {c})))]

radar_selected(rows, top) == radar_of(FilterSeq(rows, isin_str(rows, "Country", top)), top)

radar_groups(rows) == radar_selected(rows, top_countries(rows))

----------------------------------------------------------------------------
(* Tab 5: severity funnel *)

funnel_order == <<"High", "Medium", "Low">>

\* value_counts() of the categorical column Severity: one count per category,
\* 0 for a category without rows; rows without a category are not counted
severity_counts(rows) ==
    [s \in Range(labels) |-> Cardinality({i \in DOMAIN rows : rows[i].Severity = s})]

\* reindex(order): the entries in the given order, NaN for a label that is absent
funnel_rows(rows) ==
    LET vc == severity_counts(rows)
    IN [k \in DOMAIN funnel_order |->
          [Severity |-> funnel_order[k],
           Count |-> IF funnel_order[k] \in DOMAIN vc THEN Num(vc[funnel_order[k]]) ELSE NaN]]

----------------------------------------------------------------------------
(* Tab 6: monthly analysis, on the frame tab 2 has written to *)

\* the group keys of groupby("Month_Name"): every category of a categorical
\* column, the values present of a plain one
month_keys(rows, dtype) ==
    IF dtype = "category" THEN Range(month_order) ELSE string_options(rows, "Month_Name")

month_count_rows(rows, dtype) ==
    LET size == [m \in month_keys(rows, dtype) |->
                    Cardinality({i \in DOMAIN rows : rows[i].Month_Name = m})]
    IN [k \in DOMAIN month_order |->
          [Month_Name |-> month_order[k],
           Count |-> IF month_order[k] \in DOMAIN size THEN size[month_order[k]] ELSE 0]]

sum_casualties(group) == SumSeq([i \in DOMAIN group |-> fillna(group[i].Casualties, 0)])

month_casualties_rows(rows, dtype) ==
    LET total == [m \in month_keys(rows, dtype) |->
                    sum_casualties(FilterSeq(rows, isin_str(rows, "Month_Name", {m})))]
    IN [k \in DOMAIN month_order |->
          [Month_Name |-> month_order[k],
           Casualties |-> IF month_order[k] \in DOMAIN total THEN total[month_order[k]] ELSE 0]]

----------------------------------------------------------------------------
(* One execution of the script below load_data and the sidebar *)

no_frame == [rows |-> <<>>, Month_Name_dtype |-> "object", Year_Month |-> <<>>]

\* tab 2 writes Month_Name and Year_Month into the frame when it has rows
frame_of(f) ==
    IF f = <<>> THEN no_frame
    ELSE [rows |-> timeline_rows(f),
          Month_Name_dtype |-> "category",
          Year_Month |-> Year_Month(f)]

\* with one branch per tab: a chart, st.warning, or nothing at all
tabs_of(f, frame) ==
    LET empty == f = <<>>
    IN [filtered |-> frame,
        kpi |-> kpi_metrics(f),
        tabs |-> [tab1 |-> IF ~empty THEN "chart" ELSE "warning",
                  tab2 |-> IF ~empty THEN "chart" ELSE "warning",
                  tab3 |-> IF ~empty THEN "chart" ELSE "none",
                  tab4 |-> IF ~empty THEN "chart" ELSE "warning",
                  tab5 |-> IF ~empty THEN "chart" ELSE "none",
                  tab6 |-> IF ~empty THEN "chart" ELSE "none"],
        markers |-> [i \in DOMAIN f |-> marker_color(f[i])],
        sankey_data |-> IF ~empty THEN sankey_groups(frame.rows) ELSE <<>>,
        radar_data |-> IF ~empty THEN radar_groups(frame.rows) ELSE <<>>,
        funnel_data |-> IF ~empty THEN funnel_rows(frame.rows) ELSE <<>>,
        month_count |->
            IF ~empty THEN month_count_rows(frame.rows, frame.Month_Name_dtype) ELSE <<>>,
        month_casualties |->
            IF ~empty THEN month_casualties_rows(frame.rows, frame.Month_Name_dtype) ELSE <<>>]

render_tabs(f) == tabs_of(f, frame_of(f))

script(d, ys, ms, cs, vs, is, cr) == render_tabs(apply_filters(d, ys, ms, cs, vs, is, cr))

outputs == <<filtered, kpi, tabs, markers, sankey_data, radar_data, funnel_data,
             month_count, month_casualties>>

selection == <<years, months, countries, vessels, incidents, cas_range>>

Show(out) ==
    /\ filtered' = out.filtered
    /\ kpi' = out.kpi
    /\ tabs' = out.tabs
    /\ markers' = out.markers
    /\ sankey_data' = out.sankey_data
    /\ radar_data' = out.radar_data
    /\ funnel_data' = out.funnel_data
    /\ month_count' = out.month_count
    /\ month_casualties' = out.month_casualties

Render(d, ys, ms, cs, vs, is, cr) ==
    /\ years' = ys
    /\ months' = ms
    /\ countries' = cs
    /\ vessels' = vs
    /\ incidents' = is
    /\ cas_range' = cr
    /\ Show(script(d, ys, ms, cs, vs, is, cr))

----------------------------------------------------------------------------
(* Actions *)

\* The page is opened: the script runs for the first time
Run ==
    /\ status = "start"
    /\ UNCHANGED <<csv, interacted>>
    /\ IF load_data_raises(csv)
       THEN /\ status' = "load_error"
            /\ UNCHANGED <<data, selection, outputs>>
       ELSE /\ data' = load_data(csv)
            /\ IF slider_raises(load_data(csv))
               THEN /\ status' = "slider_error"
                    /\ UNCHANGED <<selection, outputs>>
               ELSE /\ status' = "rendered"
                    /\ Render(load_data(csv), {}, {}, {}, {}, {}, default_range)

\* A widget changes and the script runs again, with load_data served from the cache
Rerun(ys, ms, cs, vs, is, cr) ==
    /\ status = "rendered"
    /\ interacted' = TRUE
    /\ UNCHANGED <<csv, status, data>>
    /\ Render(data, ys, ms, cs, vs, is, cr)

selected == Cardinality(years) + Cardinality(months) + Cardinality(countries)
            + Cardinality(vessels) + Cardinality(incidents)

CanToggle(S, x) == x \in S \/ selected < MaxSel

Toggle(S, x) == IF x \in S THEN S \ {x} ELSE S \cup {x}

MonthChoices == {"Jan", "Feb", "Dec"}

SliderStops == {0, 5, 50, 60}

SelectYears ==
    \E y \in year_options(data) :
        /\ CanToggle(years, y)
        /\ Rerun(Toggle(years, y), months, countries, vessels, incidents, cas_range)

SelectMonths ==
    \E m \in MonthChoices :
        /\ CanToggle(months, m)
        /\ Rerun(years, Toggle(months, m), countries, vessels, incidents, cas_range)

SelectCountries ==
    \E c \in string_options(data, "Country") :
        /\ CanToggle(countries, c)
        /\ Rerun(years, months, Toggle(countries, c), vessels, incidents, cas_range)

SelectVessels ==
    \E v \in string_options(data, "Vessel_Type") :
        /\ CanToggle(vessels, v)
        /\ Rerun(years, months, countries, Toggle(vessels, v), incidents, cas_range)

SelectIncidents ==
    \E t \in string_options(data, "Incident_Type") :
        /\ CanToggle(incidents, t)
        /\ Rerun(years, months, countries, vessels, Toggle(incidents, t), cas_range)

\* one handle of the range slider is dragged to another stop
SelectCasRange ==
    \E stop \in SliderStops :
        \E range \in {<<stop, cas_range[2]>>, <<cas_range[1], stop>>} :
            /\ status = "rendered"
            /\ slider_min(data) <= range[1] /\ range[1] <= range[2]
            /\ range[2] <= slider_max(data)
            /\ range # cas_range
            /\ Rerun(years, months, countries, vessels, incidents, range)

----------------------------------------------------------------------------
(* Source files and specifications *)

Row(date, country, vessel, incident, casualties, cargo) ==
    [Date |-> date, Country |-> country, Vessel_Type |-> vessel,
     Incident_Type |-> incident, Casualties |-> casualties, Cargo_Loss |-> cargo]

NaT == <<>>

SampleRows ==
    { Row(<<2020, 1>>, "X", "Cargo", "Fire", Num(5), "No"),
      Row(<<2021, 2>>, "Y", "Tanker", "Collision", Num(60), "Yes"),
      Row(<<2020, 2>>, "X", "Tanker", "Fire", NaN, "Yes"),
      Row(<<2021, 1>>, "Y", "Cargo", NA, Num(50), NA),
      Row(NaT, "X", "Cargo", "Fire", Num(5), "No") }

LoadRows ==
    { Row(d, "X", "Cargo", "Fire", c, g) :
        d \in {NaT, <<2021, 12>>},
        c \in {NaN} \cup {Num(n) : n \in {0, 10, 11, 50, 51, 1000, 1001}},
        g \in {"Yes", "No", NA, "Unknown"} }

RadarCountries == {"A", "B", "C", "D", "E", "F"}

SixCountries ==
    << Row(<<2020, 1>>, "A", "Cargo", "Fire", Num(5), "Yes"),
       Row(<<2020, 1>>, "B", "Cargo", "Fire", Num(5), "No"),
       Row(<<2020, 1>>, "C", "Cargo", "Fire", Num(5), "No"),
       Row(<<2020, 1>>, "D", "Cargo", "Fire", Num(5), "No"),
       Row(<<2020, 1>>, "E", "Cargo", "Fire", Num(5), "No"),
       Row(<<2020, 1>>, "F", "Cargo", "Fire", Num(5), "No") >>

RadarRows ==
    { Row(<<2020, 1>>, c, "Cargo", t, Num(n), "Yes") :
        c \in RadarCountries, t \in {"Fire", NA}, n \in {5, 60} }

Start ==
    /\ status = "start"
    /\ interacted = FALSE
    /\ data = <<>>
    /\ years = {} /\ months = {} /\ countries = {} /\ vessels = {} /\ incidents = {}
    /\ cas_range = default_range
    /\ filtered = no_frame
    /\ kpi = kpi_metrics(<<>>)
    /\ tabs = [tab1 |-> "none", tab2 |-> "none", tab3 |-> "none",
               tab4 |-> "none", tab5 |-> "none", tab6 |-> "none"]
    /\ markers = <<>>
    /\ sankey_data = <<>>
    /\ radar_data = <<>>
    /\ funnel_data = <<>>
    /\ month_count = <<>>
    /\ month_casualties = <<>>

Init == csv \in SeqsUpTo(SampleRows, MaxRows) /\ Start

Next ==
    \/ Run
    \/ SelectYears
    \/ SelectMonths
    \/ SelectCountries
    \/ SelectVessels
    \/ SelectIncidents
    \/ SelectCasRange

Spec == Init /\ [][Next]_vars

\* The loader on its own: every combination of date, casualties and cargo loss
InitLoad == csv \in SeqsUpTo(LoadRows, MaxLoadRows) /\ Start

SpecLoad == InitLoad /\ [][Run]_vars

\* Tables with more countries than the radar keeps
InitRadar ==
    /\ csv \in {head \o tail : head \in {<<>>, SixCountries}, tail \in SeqsUpTo(RadarRows, MaxExtra)}
    /\ Start

SpecRadar == InitRadar /\ [][Run]_vars

----------------------------------------------------------------------------
(* Properties *)

loaded == status \in {"rendered", "slider_error"}

unrestricted ==
    years = {} /\ months = {} /\ countries = {} /\ vessels = {} /\ incidents = {}

observed_range == <<SetMin(observed_casualties(data)), SetMax(observed_casualties(data))>>

in_range(row) ==
    /\ ~IsNaN(row.Casualties)
    /\ cas_range[1] <= Val(row.Casualties)
    /\ Val(row.Casualties) <= cas_range[2]

\* a row satisfies every current predicate
Passes(row) ==
    /\ years = {} \/ (~IsNaN(row.Year) /\ Val(row.Year) \in years)
    /\ months = {} \/ row.Month_Name \in months
    /\ countries = {} \/ row.Country \in countries
    /\ vessels = {} \/ row.Vessel_Type \in vessels
    /\ incidents = {} \/ row.Incident_Type \in incidents
    /\ in_range(row)

has_casualties(row) == ~IsNaN(row.Casualties)

rows_with(rows, col, v) == {i \in DOMAIN rows : rows[i][col] = v}

\* C1: every loaded row has Severity Low when Casualties (null as 0) is at most
\* 10, Medium from 11 to 50 and High above 50, however large; never null.
C1_SeverityTotal ==
    loaded =>
        \A i \in DOMAIN data :
            LET c == fillna(data[i].Casualties, 0)
            IN data[i].Severity = IF c <= 10 THEN "Low" ELSE IF c <= 50 THEN "Medium" ELSE "High"

\* What the code does instead: High stops at the last bin edge of pd.cut
SeverityUpToLastBin ==
    loaded =>
        \A i \in DOMAIN data :
            LET c == fillna(data[i].Casualties, 0)
            IN data[i].Severity =
                 IF c <= 10 THEN "Low" ELSE IF c <= 50 THEN "Medium"
                 ELSE IF c <= bins[Len(bins)] THEN "High" ELSE NA

\* C2: after any sequence of selection changes the filtered table is exactly
\* the loaded rows, in their original order, that satisfy every current
\* predicate (empty categorical selection: no restriction; Casualties within
\* the inclusive range); it depends on the current selection only.
C2_FilteredIsMatchingRows ==
    status = "rendered" => filtered.rows = SelectSeq(data, Passes)

C2_Witness ==
    /\ status = "rendered"
    /\ interacted
    /\ countries # {}
    /\ months # {}
    /\ cas_range # default_range
    /\ filtered.rows # <<>>
    /\ Len(filtered.rows) < Len(data)

\* C3: with every categorical selection empty and the casualty range equal
\* to the observed minimum and maximum, the filtered table is the whole
\* loaded table, rows with null Casualties included.
C3_EmptySelectionKeepsAllRows ==
    (status = "rendered" /\ unrestricted /\ cas_range = observed_range)
        => filtered.rows = data

\* What the code does instead: the rows with null Casualties are dropped
EmptySelectionKeepsRowsWithCasualties ==
    (status = "rendered" /\ unrestricted /\ cas_range = observed_range)
        => filtered.rows = SelectSeq(data, has_casualties)

\* C4: before any interaction the categorical selections are empty and the
\* casualty range is the observed [min, max], so the filtered table holds
\* every loaded row with non-null Casualties.
C4_DefaultsDoNotRestrict ==
    (status = "rendered" /\ ~interacted) =>
        /\ unrestricted
        /\ cas_range = observed_range
        /\ filtered.rows = SelectSeq(data, has_casualties)

\* What the code does instead: the slider starts at (0, 50)
DefaultsAreZeroToFifty ==
    (status = "rendered" /\ ~interacted) =>
        /\ unrestricted
        /\ cas_range = default_range
        /\ filtered.rows = SelectSeq(data, in_range)

\* C5: with an unparseable Date in the source, load_data completes; the row
\* is in the loaded table with Year, Month and Month_Name null, and passes
\* a filter with no year and month selection whose other predicates it satisfies.
C5_UnparseableDateIsTolerated ==
    (status # "start" /\ \E i \in DOMAIN csv : csv[i].Date = NaT) =>
        /\ status # "load_error"
        /\ Len(data) = Len(csv)
        /\ \A i \in DOMAIN csv :
              csv[i].Date = NaT =>
                  /\ IsNaN(data[i].Year)
                  /\ IsNaN(data[i].Month)
                  /\ data[i].Month_Name = NA
                  /\ (status = "rendered" /\ years = {} /\ months = {} /\ Passes(data[i]))
                        => \E k \in DOMAIN filtered.rows : filtered.rows[k].Index = i

\* What the code does instead: one unparseable Date makes load_data raise
UnparseableDateRaises ==
    status # "start" => (status = "load_error" <=> \E i \in DOMAIN csv : csv[i].Date = NaT)

\* C6: when the filtered table has no rows, each of the six views shows an
\* empty result or an explicit "no data" signal; none is left without output.
C6_EveryViewSignalsNoData ==
    (status = "rendered" /\ filtered.rows = <<>>) =>
        \A t \in DOMAIN tabs : tabs[t] # "none"

C8_SeverityDistribution ==
    status = "rendered" =>
        /\ Len(funnel_data) = Len(funnel_order)
        /\ \A k \in DOMAIN funnel_data :
              /\ funnel_data[k].Severity = funnel_order[k]
              /\ funnel_data[k].Count =
                    Num(Cardinality(rows_with(filtered.rows, "Severity", funnel_order[k])))

\* What the code does instead: the distribution exists only for a table with rows
SeverityDistributionWhenRows ==
    status = "rendered" =>
        IF filtered.rows = <<>> THEN funnel_data = <<>>
        ELSE /\ Len(funnel_data) = Len(funnel_order)
             /\ \A k \in DOMAIN funnel_data :
                   /\ funnel_data[k].Severity = funnel_order[k]
                   /\ funnel_data[k].Count =
                         Num(Cardinality(rows_with(filtered.rows, "Severity", funnel_order[k])))

month_total(m) ==
    SumSeq([i \in DOMAIN SelectSeq(filtered.rows, LAMBDA r : r.Month_Name = m) |->
               fillna(SelectSeq(filtered.rows, LAMBDA r : r.Month_Name = m)[i].Casualties, 0)])

monthly_totals_ok ==
    /\ Len(month_count) = Len(month_order)
    /\ Len(month_casualties) = Len(month_order)
    /\ \A k \in DOMAIN month_order :
          /\ month_count[k].Month_Name = month_order[k]
          /\ month_count[k].Count =
                Cardinality(rows_with(filtered.rows, "Month_Name", month_order[k]))
          /\ month_casualties[k].Month_Name = month_order[k]
          /\ month_casualties[k].Casualties = month_total(month_order[k])

\* C9: for every filtered table the monthly totals have exactly 12 entries
\* Jan..Dec, each with the number of filtered rows of that month and the sum
\* of their Casualties, 0 for a month without rows, also after the timeline
\* tab has rewritten Month_Name.
C9_MonthlyTotals == status = "rendered" => monthly_totals_ok

\* What the code does instead: the totals exist only for a table with rows
MonthlyTotalsWhenRows ==
    status = "rendered" =>
        IF filtered.rows = <<>> THEN month_count = <<>> /\ month_casualties = <<>>
        ELSE filtered.Month_Name_dtype = "category" /\ monthly_totals_ok

country_rows(c) == SelectSeq(filtered.rows, LAMBDA r : r.Country = c)

countries_present == string_options(filtered.rows, "Country")

incidents_of(c) == Len(country_rows(c))

typed_incidents_of(c) == Len(SelectSeq(country_rows(c), LAMBDA r : r.Incident_Type # NA))

top_summary_ok(typed_only) ==
    /\ Cardinality(DOMAIN radar_data) <= TopN
    /\ DOMAIN radar_data \subseteq countries_present
    /\ \A c \in DOMAIN radar_data :
          /\ \A o \in countries_present \ DOMAIN radar_data :
                Len(country_rows(o)) <= Len(country_rows(c))
          /\ radar_data[c].Casualties =
                SumSeq([i \in DOMAIN country_rows(c) |-> fillna(country_rows(c)[i].Casualties, 0)])
          /\ radar_data[c].Cargo_Loss_Flag =
                SumSeq([i \in DOMAIN country_rows(c) |-> fillna(country_rows(c)[i].Cargo_Loss_Flag, 0)])
          /\ radar_data[c].Incident_Type =
                IF typed_only THEN typed_incidents_of(c) ELSE incidents_of(c)

\* C10: the top-country summary has at most 5 entries, each a country of the
\* filtered table, no omitted country has strictly more filtered incidents
\* than a retained one, and each entry carries the country's sum of
\* Casualties, sum of Cargo_Loss_Flag and incident count over the filtered rows.
C10_TopCountrySummary == status = "rendered" => top_summary_ok(FALSE)

\* What the code does instead: the third figure counts the rows whose
\* Incident_Type is present
TopCountrySummaryCountsTypedRows == status = "rendered" => top_summary_ok(TRUE)

====
